---- MODULE Spec2Model ----
(***************************************************************************)
(* Incremental synchronization engine of PM-status-update:                 *)
(*   DataFetcher (src/dataFetcher.js, second class definition, l.578-1128) *)
(*   GoogleAuthManager.executeWithRetry (src/utils/googleAuth.js)          *)
(*   the MongoDB helpers (src/unnamed/part_006)                            *)
(* Times are integers in milliseconds since the epoch; 0 stands for an      *)
(* absent (null/undefined) time.                                           *)
(***************************************************************************)
EXTENDS Integers, Sequences, FiniteSets, Bags, TLC

VARIABLES
  isRunning,    \* DataFetcher.isRunning, of every DataFetcher object
  lastRunTime,  \* DataFetcher.lastRunTime (0 = null), of every DataFetcher object
  stats,        \* DataFetcher.stats, of every DataFetcher object
  skipLog,      \* number of 'already in progress, skipping' warnings logged
  inv,          \* locals of every collectAllData invocation (one per trigger source)
  spacesFile,   \* spaces_with_latest_messages.json: [exists, data]
  provChat,     \* provider side: createTime of the messages of every chat space
  provMail,     \* provider side: the messages of every user's mailbox
  chatDocs,     \* ChatMessage collection (a bag: the schema has no unique index)
  gmailDocs,    \* GmailMessage collection (a set: unique on (user_id, message_id))
  userRec,      \* User collection: tokens and last-sync markers per user
  syncLog,      \* the SYNC_LOG entries written by createSyncLog, in order
  now,          \* wall clock (ms)
  calls,        \* number of collectAllData calls made so far
  faults,       \* number of failures the environment has produced so far
  rx,           \* last executeWithRetry call: inputs and result
  cur,          \* last updateSpaceInJSON call: inputs and the value it replaced
  st,           \* last insert*Messages call: inputs, store before it, result
  pg,           \* a list loop (chat pages of a space / mail list) driven on its own
  rf,           \* last refreshTokenIfNeeded call: token endpoint outcomes and result
  exited        \* the process has called process.exit (SIGTERM / SIGINT handler)

vars == <<isRunning, lastRunTime, stats, skipLog, inv, spacesFile, provChat,
          provMail, chatDocs, gmailDocs, userRec, syncLog, now, calls, faults, rx, pg, rf, cur, st,
          exited>>

orchVars == <<isRunning, lastRunTime, stats, skipLog, inv>>
worldVars == <<provChat, provMail, now, calls, exited>>
envVars  == <<provChat, provMail, now, calls, faults, exited>>
dbVars   == <<chatDocs, gmailDocs, userRec, syncLog>>

NoTime == 0

Max2(a, b) == IF a >= b THEN a ELSE b

RECURSIVE Pow2(_)
Pow2(n) == IF n <= 0 THEN 1 ELSE 2 * Pow2(n - 1)

(***************************************************************************)
(* GoogleAuthManager.executeWithRetry                                      *)
(***************************************************************************)
\* Outcome of one apiCall(): HTTP-like code; 200 = resolved, else error.code
SuccessCodes == {200}
Outcomes == {200, 429, 503, 403}

DefaultMaxRetries == 3
DefaultBaseDelay == 1000

\* bound: length of the outcome oracle handed to a retry loop
MaxOuts == 4

IsTransientAll(code) == code \notin SuccessCodes
IsTransient(code) == code = 429 \/ code = 503

RetryDelayFlat(baseDelay, attempt) == baseDelay
RetryDelay(baseDelay, attempt) == baseDelay * Pow2(attempt - 1)

IsLastAttemptNever(attempt, maxRetries) == FALSE
IsLastAttempt(attempt, maxRetries) == attempt = maxRetries

\* the for-loop from attempt `attempt` on; outs[k] is what the k-th apiCall() does
RECURSIVE RetryFrom(_, _, _, _, _)
RetryFrom(outs, attempt, maxRetries, baseDelay, sleeps) ==
  IF attempt > maxRetries
  THEN [result |-> "undefined", code |-> 0, calls |-> attempt - 1, sleeps |-> sleeps]
  ELSE LET o == outs[attempt] IN
    IF o \in SuccessCodes
    THEN [result |-> "returned", code |-> o, calls |-> attempt, sleeps |-> sleeps]
    ELSE IF IsTransient(o)
      THEN IF IsLastAttempt(attempt, maxRetries)
           THEN [result |-> "thrown", code |-> o, calls |-> attempt, sleeps |-> sleeps]
           ELSE RetryFrom(outs, attempt + 1, maxRetries, baseDelay,
                          Append(sleeps, RetryDelay(baseDelay, attempt)))
      ELSE [result |-> "thrown", code |-> o, calls |-> attempt, sleeps |-> sleeps]

executeWithRetry(outs, maxRetries, baseDelay) ==
  RetryFrom(outs, 1, maxRetries, baseDelay, <<>>)

\* a call with the default arguments, over every oracle: can it return, can it throw
OutcomeSeqs == [1..DefaultMaxRetries -> Outcomes]
RetryResults ==
  {executeWithRetry(outs, DefaultMaxRetries, DefaultBaseDelay).result = "returned" :
     outs \in OutcomeSeqs}

RxIdle == [called |-> FALSE, outs |-> <<>>, maxRetries |-> 0, baseDelay |-> 0,
           res |-> [result |-> "none", code |-> 0, calls |-> 0, sleeps |-> <<>>]]

CallExecuteWithRetry ==
  /\ ~rx.called
  /\ \E outs \in [1..MaxOuts -> Outcomes], m \in 1..MaxOuts,
        b \in {DefaultBaseDelay, DefaultBaseDelay \div 2} :
       rx' = [called |-> TRUE, outs |-> outs, maxRetries |-> m, baseDelay |-> b,
              res |-> executeWithRetry(outs, m, b)]
  /\ UNCHANGED <<orchVars, envVars, dbVars, spacesFile, cur, st, pg, rf>>

(***************************************************************************)
(* GoogleAuthManager.refreshTokenIfNeeded                                  *)
(***************************************************************************)
\* outs[1] is what oauth2Client.getAccessToken() does, outs[2] what the
\* fallback oauth2Client.refreshAccessToken() does; the error of the fallback
\* is re-thrown, nothing sleeps and nothing is called a third time
refreshTokenIfNeeded(outs) ==
  IF outs[1] \in SuccessCodes
  THEN [result |-> "returned", code |-> outs[1], calls |-> 1, sleeps |-> <<>>]
  ELSE IF outs[2] \in SuccessCodes
       THEN [result |-> "returned", code |-> outs[2], calls |-> 2, sleeps |-> <<>>]
       ELSE [result |-> "thrown", code |-> outs[2], calls |-> 2, sleeps |-> <<>>]

RfIdle == [called |-> FALSE, outs |-> <<>>,
           res |-> [result |-> "none", code |-> 0, calls |-> 0, sleeps |-> <<>>]]

\* collectUserData calls this.googleAuth.refreshTokenIfNeeded(user.google_tokens)
CallRefreshTokenIfNeeded ==
  /\ ~rf.called
  /\ \E outs \in [1..MaxOuts -> Outcomes] :
       rf' = [called |-> TRUE, outs |-> outs, res |-> refreshTokenIfNeeded(outs)]
  /\ UNCHANGED <<orchVars, envVars, dbVars, spacesFile, rx, pg, cur, st>>

(***************************************************************************)
(* The chat cursor store: spaces_with_latest_messages.json                 *)
(***************************************************************************)
Users == {"A", "B"}
Spaces == {"S1", "S2"}

\* the watermark the scenarios start from, and the instants around it
T0 == 1000
ChatTimes == {T0, T0 + 1, T0 + 2, T0 + 5}

SpaceEntry(s, t, h) == [space_id |-> s, latest_message_time |-> t, has_new_msg |-> h]

loadSpacesFromJSON(file) == IF ~file.exists THEN <<>> ELSE file.data

\* writeOk = FALSE: fs.writeFileSync throws (and the error is re-thrown)
saveSpacesToJSON(file, spacesData, writeOk) ==
  IF writeOk THEN [exists |-> TRUE, data |-> spacesData] ELSE file

\* Array.prototype.findIndex on space_id; 0 stands for -1
FindIndexFirst(data, spaceId) == IF Len(data) = 0 THEN 0 ELSE 1
FindIndex(data, spaceId) ==
  LET hits == {k \in 1..Len(data) : data[k].space_id = spaceId}
  IN  IF hits = {} THEN 0 ELSE CHOOSE k \in hits : \A j \in hits : k <= j

\* the value updateSpaceInJSON stores for latest_message_time
NewLatest(old, latestMessageTime) == latestMessageTime

updateSpaceInJSON(file, spaceId, latestMessageTime, hasNewMsg, writeOk) ==
  LET spacesData == loadSpacesFromJSON(file)
      spaceIndex == FindIndex(spacesData, spaceId)
  IN  IF spaceIndex # 0
      THEN saveSpacesToJSON(file,
             [spacesData EXCEPT ![spaceIndex] =
                SpaceEntry(spaceId,
                           NewLatest(spacesData[spaceIndex].latest_message_time, latestMessageTime),
                           hasNewMsg)],
             writeOk)
      ELSE file

\* latest_message_time of a space as the file has it (NoTime when absent)
Watermark(file, spaceId) ==
  LET d == loadSpacesFromJSON(file)
      k == FindIndex(d, spaceId)
  IN  IF k = 0 THEN NoTime ELSE d[k].latest_message_time

CurIdle == [called |-> FALSE, space |-> "S1", t |-> NoTime, before |-> NoTime,
            known |-> FALSE, writeOk |-> FALSE, prevT |-> NoTime, prevSpace |-> "S1",
            prevApplied |-> FALSE]

UpdateSpaceCall ==
  /\ \E s \in Spaces, t \in ChatTimes, h \in BOOLEAN, w \in BOOLEAN :
       /\ spacesFile' = updateSpaceInJSON(spacesFile, s, t, h, w)
       /\ cur' = [called |-> TRUE, space |-> s, t |-> t,
                  before |-> Watermark(spacesFile, s),
                  known |-> FindIndex(loadSpacesFromJSON(spacesFile), s) # 0,
                  writeOk |-> w,
                  prevT |-> cur.t, prevSpace |-> cur.space,
                  prevApplied |-> cur.called /\ cur.known /\ cur.writeOk]
  /\ UNCHANGED <<orchVars, envVars, dbVars, rx, pg, rf, st>>

(***************************************************************************)
(* The item stores: insertGmailMessages / insertChatMessages               *)
(***************************************************************************)
GmailDoc(u, id, t) == [user_id |-> u, message_id |-> id, message_time |-> t]
ChatDoc(u, s, t) == [user_id |-> u, message_id |-> <<s, t>>, space_id |-> s, message_time |-> t]

\* unique index { user_id: 1, message_id: 1 } of gmailMessageSchema
GmailKeyTaken(docs, m) ==
  \E d \in docs : d.user_id = m.user_id /\ d.message_id = m.message_id

\* insertMany(..., {ordered: false}): every document whose key is free is written
RECURSIVE GmailInsertMany(_, _, _)
GmailInsertMany(docs, messages, k) ==
  IF k > Len(messages) THEN [docs |-> docs, writeErrors |-> 0]
  ELSE IF GmailKeyTaken(docs, messages[k])
       THEN LET r == GmailInsertMany(docs, messages, k + 1)
            IN  [docs |-> r.docs, writeErrors |-> r.writeErrors + 1]
       ELSE GmailInsertMany(docs \cup {messages[k]}, messages, k + 1)

\* the count returned when insertMany reports duplicate keys (code 11000):
\* messages.length - error.writeErrors.length
InsertedCountAll(n, writeErrors) == n
InsertedCount(n, writeErrors) == n - writeErrors

insertGmailMessages(docs, messages, dbOk) ==
  IF Len(messages) = 0 THEN [docs |-> docs, insertedCount |-> 0, thrown |-> FALSE]
  ELSE IF ~dbOk THEN [docs |-> docs, insertedCount |-> 0, thrown |-> TRUE]
  ELSE LET r == GmailInsertMany(docs, messages, 1)
       IN  [docs |-> r.docs, insertedCount |-> InsertedCount(Len(messages), r.writeErrors),
            thrown |-> FALSE]

RECURSIVE SeqToBag(_)
SeqToBag(sq) == IF Len(sq) = 0 THEN EmptyBag ELSE SetToBag({Head(sq)}) (+) SeqToBag(Tail(sq))

\* chatMessageSchema declares no unique index: insertMany writes every valid document
insertChatMessages(docs, messages, dbOk) ==
  IF Len(messages) = 0 THEN [docs |-> docs, insertedCount |-> 0, thrown |-> FALSE]
  ELSE IF ~dbOk THEN [docs |-> docs, insertedCount |-> 0, thrown |-> TRUE]
  ELSE [docs |-> docs (+) SeqToBag(messages), insertedCount |-> Len(messages),
        thrown |-> FALSE]

\* bound: documents in the chat collection when batches are fed directly
MaxChatDocs == 4

StoreGmailPool == {GmailDoc(u, id, T0 + id) : u \in Users, id \in 1..2}
StoreChatPool == {ChatDoc("A", "S1", t) : t \in {T0 + 1, T0 + 2}}
BatchesOf(pool) == {<<d>> : d \in pool} \cup {<<d, e>> : d \in pool, e \in pool}

StIdle == [kind |-> "none", batch |-> <<>>, repeat |-> FALSE, thrown |-> FALSE,
           insertedCount |-> 0, gmailBefore |-> {}, chatBefore |-> EmptyBag]

InsertGmailCall ==
  /\ \E batch \in BatchesOf(StoreGmailPool), dbOk \in BOOLEAN :
       LET r == insertGmailMessages(gmailDocs, batch, dbOk) IN
       /\ gmailDocs' = r.docs
       /\ st' = [kind |-> "gmail", batch |-> batch,
                 repeat |-> st.kind = "gmail" /\ st.batch = batch /\ ~st.thrown,
                 thrown |-> r.thrown, insertedCount |-> r.insertedCount,
                 gmailBefore |-> gmailDocs, chatBefore |-> chatDocs]
  /\ UNCHANGED <<orchVars, envVars, chatDocs, userRec, syncLog, spacesFile, rx, pg, rf, cur>>

InsertChatCall ==
  /\ \E batch \in BatchesOf(StoreChatPool), dbOk \in BOOLEAN :
       LET r == insertChatMessages(chatDocs, batch, dbOk) IN
       /\ BagCardinality(chatDocs) + Len(batch) <= MaxChatDocs
       /\ chatDocs' = r.docs
       /\ st' = [kind |-> "chat", batch |-> batch,
                 repeat |-> st.kind = "chat" /\ st.batch = batch /\ ~st.thrown,
                 thrown |-> r.thrown, insertedCount |-> r.insertedCount,
                 gmailBefore |-> gmailDocs, chatBefore |-> chatDocs]
  /\ UNCHANGED <<orchVars, envVars, gmailDocs, userRec, syncLog, spacesFile, rx, pg, rf, cur>>

(***************************************************************************)
(* The MongoDB helpers used by a cycle (src/unnamed/part_006)              *)
(***************************************************************************)
\* process timezone: Date.prototype.getTimezoneOffset() in minutes
TzOffsetMinutes == 0 - 330

\* getLocalDate(): now shifted by the timezone offset
getLocalDate(t) == t - TzOffsetMinutes * 60000

LogEntry(userId, syncType, status, itemCount, cycle) ==
  [user_id |-> userId, sync_type |-> syncType, status |-> status,
   item_count |-> itemCount, cycle |-> cycle]

\* `if (status === 'success')`: which outcomes move the user's last-sync marker
UpdatesMarkerAlways(status) == TRUE
UpdatesMarker(status) == status = "success"

\* createSyncLog: the entry is printed first; a success then updates the user's
\* last_<type>_sync, and that update can reject (updOk = FALSE)
createSyncLog(log, users, t, userId, syncType, status, itemCount, cycle, updOk) ==
  LET field == IF syncType = "gmail" THEN "last_gmail_sync" ELSE "last_chat_sync" IN
  [log    |-> Append(log, LogEntry(userId, syncType, status, itemCount, cycle)),
   users  |-> IF UpdatesMarker(status) /\ updOk
              THEN [users EXCEPT ![userId][field] = getLocalDate(t)]
              ELSE users,
   thrown |-> UpdatesMarker(status) /\ ~updOk]

\* bound: createSyncLog calls when the function is driven directly
MaxLogCalls == 2

Statuses == {"success", "error"}

CreateSyncLogCall ==
  /\ Len(syncLog) < MaxLogCalls
  /\ \E u \in Users, ty \in {"chat", "gmail"}, status \in Statuses, n \in 0..1,
        updOk \in BOOLEAN :
       LET r == createSyncLog(syncLog, userRec, now, u, ty, status, n, 0, updOk) IN
       /\ syncLog' = r.log
       /\ userRec' = r.users
  /\ now' = now + 1
  /\ UNCHANGED <<orchVars, provChat, provMail, calls, faults, exited, chatDocs, gmailDocs,
                 spacesFile, rx, pg, rf, cur, st>>

hasExistingGmailMessages(docs, userId) == \E d \in docs : d.user_id = userId
getLastGmailSyncTime(users, userId) == users[userId].last_gmail_sync

\* updateUserTokens: refresh_token is written only when the new tokens carry one
updateUserTokensBlind(users, userId, tokens) ==
  [users EXCEPT ![userId].access_token = tokens.access_token,
                ![userId].refresh_token = tokens.refresh_token]
updateUserTokens(users, userId, tokens) ==
  [users EXCEPT ![userId].access_token = tokens.access_token,
                ![userId].refresh_token =
                   IF tokens.refresh_token # "" THEN tokens.refresh_token ELSE @]

(***************************************************************************)
(* Provider side                                                           *)
(***************************************************************************)
MailMsg(id, t) == [id |-> id, t |-> t]

Query(kind, arg) == [kind |-> kind, arg |-> arg]

DayMs == 24 * 60 * 60 * 1000

\* users.messages.list(q): which messages of a mailbox a query selects
MatchesQuery(msg, q, t) ==
  CASE q.kind = "none"       -> TRUE
    [] q.kind = "after"      -> msg.t \div 1000 > q.arg
    [] q.kind = "newer_than" -> msg.t > t - q.arg * DayMs

\* the ids listed over all pages: the newest ones, at most maxResultsToList
MailListed(mailbox, q, t, maxResultsToList) ==
  LET matching == {msg \in mailbox : MatchesQuery(msg, q, t)}
  IN  {msg \in matching :
         Cardinality({x \in matching : x.t > msg.t \/ (x.t = msg.t /\ x.id > msg.id)})
           < maxResultsToList}

\* spaces.messages.list over all pages of a space: the createTime of every
\* message the filter lets through (no filter when the lower bound is absent)
ChatFilter(latestMessageTime) == latestMessageTime + 1

ChatListed(times, latestMessageTime) ==
  IF latestMessageTime # NoTime
  THEN {t \in times : t > ChatFilter(latestMessageTime)}
  ELSE times

SetMax(S) == CHOOSE x \in S : \A y \in S : y <= x

\* a finite set of times as the ascending sequence the provider returns
RECURSIVE AscSeq(_)
AscSeq(S) ==
  IF S = {} THEN <<>>
  ELSE LET lo == CHOOSE x \in S : \A y \in S : x <= y
       IN  <<lo>> \o AscSeq(S \ {lo})

\* gmailMessagesToStore.sort((a, b) => b.message_time - a.message_time)
RECURSIVE DescDocs(_)
DescDocs(S) ==
  IF S = {} THEN <<>>
  ELSE LET hi == CHOOSE x \in S : \A y \in S :
                   y.message_time < x.message_time
                   \/ (y.message_time = x.message_time /\ y.message_id <= x.message_id)
       IN  <<hi>> \o DescDocs(S \ {hi})

(***************************************************************************)
(* Mail strategy (collectGmailData, l.904-933)                             *)
(***************************************************************************)
InitialMaxResults == 100
IncrementalMaxResultsSmall == 50
IncrementalMaxResults == 500
FallbackMaxResults == 100
FallbackDays == 7

MailStrategySwapped(hasExistingMessages, lastSyncTime) ==
  IF hasExistingMessages
  THEN [searchQuery |-> Query("none", 0), maxResultsToList |-> InitialMaxResults]
  ELSE [searchQuery |-> Query("newer_than", FallbackDays),
        maxResultsToList |-> FallbackMaxResults]
MailStrategy(hasExistingMessages, lastSyncTime) ==
  IF ~hasExistingMessages
  THEN [searchQuery |-> Query("none", 0), maxResultsToList |-> InitialMaxResults]
  ELSE IF lastSyncTime # NoTime
       THEN [searchQuery |-> Query("after", lastSyncTime \div 1000),
             maxResultsToList |-> IncrementalMaxResults]
       ELSE [searchQuery |-> Query("newer_than", FallbackDays),
             maxResultsToList |-> FallbackMaxResults]

(***************************************************************************)
(* DataFetcher: one collection cycle                                       *)
(***************************************************************************)
\* bounds: cycles started, skipped calls, calls in flight at once
MaxRuns == 2
MaxSkips == 1
NSlots == 2
\* bound: failures (rejected calls, exhausted retries) in one behaviour
MaxFaults == 1
\* bound: requests served by the HTTP handlers (each constructs a DataFetcher)
MaxHttp == 2

\* the DataFetcher objects: the one the process creates when dataFetcher.js is
\* run directly, and the one every HTTP handler invocation constructs
Main == 0
Fetchers == 0..MaxHttp
Handlers == {"cron", "trigger"}

\* the environment makes a call fail (ok = FALSE) while the budget lasts
InjectN(n) ==
  /\ faults + n <= MaxFaults
  /\ faults' = faults + n
Inject(ok) == InjectN(IF ok THEN 0 ELSE 1)

Slots == 1..NSlots
UserSeq == <<"A", "B">>
Sources == {"cron", "initial", "manual"}

Tokens(at, rt) == [access_token |-> at, refresh_token |-> rt]
FreshAccessToken(at) == IF at = "at1" THEN "at2" ELSE "at1"

ChatIdle == [user |-> "", spaces |-> <<>>, sidx |-> 0, all |-> <<>>, hasAnyNew |-> FALSE,
             total |-> 0, spaceErrors |-> 0, writeErrors |-> 0, phase |-> "none",
             failed |-> {}, dropped |-> {}]
MailIdle == [user |-> "", planned |-> FALSE, has |-> FALSE, last |-> NoTime, q |-> Query("none", 0), max |-> 0,
             listed |-> 0, toStore |-> <<>>, total |-> 0, phase |-> "none", skipped |-> {}]
SlotIdle == [pc |-> "idle", this |-> Main, cycle |-> 0, users |-> <<>>, uidx |-> 0,
             tok |-> <<>>, refresh |-> "none", refreshFailed |-> {}, ended |-> {},
             c |-> ChatIdle, m |-> MailIdle]

CurUser(l) == l.users[l.uidx]

\* invocation i is alive and stands at statement p
At(i, p) == ~exited /\ inv[i].pc = p

\* the first idle invocation record
FreeSlot(i) ==
  /\ inv[i].pc = "idle"
  /\ \A j \in Slots : inv[j].pc = "idle" => i <= j

\* the entry guard of collectAllData
GuardOpen(running) == FALSE
GuardBlocks(running) == running

\* the call returns at once: only the warning is logged
SkipRun ==
  /\ skipLog < MaxSkips
  /\ skipLog' = skipLog + 1
  /\ UNCHANGED <<isRunning, lastRunTime, stats, inv>>

\* past the guard: this.isRunning = true, lastRunTime, totalRuns++
StartRun(i, f) ==
  /\ stats[f].totalRuns < MaxRuns
  /\ isRunning' = [isRunning EXCEPT ![f] = TRUE]
  /\ lastRunTime' = [lastRunTime EXCEPT ![f] = now']
  /\ stats' = [stats EXCEPT ![f].totalRuns = @ + 1]
  /\ inv' = [inv EXCEPT ![i] = [SlotIdle EXCEPT !.pc = "enumerate", !.this = f,
                                                !.cycle = calls']]
  /\ UNCHANGED skipLog

\* f.collectAllData() is called
CollectAllData(f) ==
  /\ now' = now + 1
  /\ calls' = calls + 1
  /\ IF GuardBlocks(isRunning[f])
     THEN SkipRun
     ELSE \E i \in Slots : FreeSlot(i) /\ StartRun(i, f)
  /\ UNCHANGED <<provChat, provMail, faults, dbVars, spacesFile, rx, pg, rf, cur, st, exited>>

\* the process-level DataFetcher is called: cron tick, the delayed initial run,
\* a direct call
Trigger(src) ==
  /\ ~exited
  /\ CollectAllData(Main)

\* the DataFetcher objects HTTP handlers have constructed (and called) so far
Constructed == {f \in Fetchers \ {Main} : stats[f].totalRuns > 0}

\* an HTTP handler (api cron / manual trigger) serves a request:
\* `new DataFetcher()` and then `await fetcher.collectAllData()`
HttpRequest(h) ==
  \E accepted \in BOOLEAN :
    IF ~accepted
    THEN UNCHANGED vars   \* 401 (bad CRON_SECRET) or 405 (not a POST)
    ELSE
     \E f \in Fetchers \ (Constructed \cup {Main}) :
       /\ \A g \in Fetchers \ (Constructed \cup {Main}) : f <= g
       /\ ~exited
       /\ CollectAllData(f)

\* getAllActiveUsers(): the users that have an access token and a refresh token
getAllActiveUsers(users) ==
  SelectSeq(UserSeq, LAMBDA u : users[u].access_token # "" /\ users[u].refresh_token # "")

\* what `finally { this.isRunning = false }` leaves in isRunning
RunningAfterFinallyStuck == TRUE
RunningAfterFinally == FALSE

\* getAllActiveUsers() returned or threw
Enumerate(i) ==
  /\ At(i, "enumerate")
  /\ \E r \in {"throw", IF Len(getAllActiveUsers(userRec)) = 0 THEN "none" ELSE "all"} :
       /\ Inject(r # "throw")
       /\ CASE r = "throw" ->
                 /\ stats' = [stats EXCEPT ![inv[i].this].failedRuns = @ + 1,
                                           ![inv[i].this].lastError = TRUE]
                 /\ isRunning' = [isRunning EXCEPT ![inv[i].this] = RunningAfterFinally]
                 /\ inv' = [inv EXCEPT ![i].pc = "idle"]
            [] r = "none" ->
                 /\ isRunning' = [isRunning EXCEPT ![inv[i].this] = RunningAfterFinally]
                 /\ inv' = [inv EXCEPT ![i].pc = "idle"]
                 /\ UNCHANGED stats
            [] r = "all" ->
                 /\ inv' = [inv EXCEPT ![i].pc = "refresh",
                                       ![i].users = getAllActiveUsers(userRec),
                                       ![i].uidx = 1,
                                       ![i].tok = [u \in Users |->
                                          Tokens(userRec[u].access_token,
                                                 userRec[u].refresh_token)]]
                 /\ UNCHANGED <<isRunning, stats>>
  /\ UNCHANGED <<lastRunTime, skipLog, worldVars, dbVars, spacesFile, rx, pg, rf, cur, st>>

\* how the cycle is counted once the user loop is over: a user's failure is
\* caught inside collectUserData and inside the loop, never by the outer catch
CycleOutcomeStrict(failedUsers) == IF failedUsers # {} THEN "failed" ELSE "success"
CycleOutcome(failedUsers) == "success"

\* collectUserData(user) is over: the loop takes the next user, or the cycle
\* is counted as successful and the analysis is started
Advance(i, l) ==
  LET done == [l EXCEPT !.ended = @ \cup {CurUser(l)}] IN
  IF l.uidx < Len(l.users)
  THEN /\ inv' = [inv EXCEPT ![i] = [done EXCEPT !.pc = "refresh", !.uidx = @ + 1]]
       /\ UNCHANGED stats
  ELSE /\ inv' = [inv EXCEPT ![i] = [done EXCEPT !.pc = "analyze"]]
       /\ stats' = IF CycleOutcome(done.refreshFailed) = "success"
                   THEN [stats EXCEPT ![l.this].successfulRuns = @ + 1]
                   ELSE [stats EXCEPT ![l.this].failedRuns = @ + 1,
                                      ![l.this].lastError = TRUE]

\* collectChatData up to its first remote call: the spaces are read from the file
ChatStart(file, u) ==
  LET d == loadSpacesFromJSON(file)
  IN  [ChatIdle EXCEPT !.user = u, !.spaces = d, !.sidx = 1, !.phase = "spaces"]

\* the collector collectUserData awaits first
FirstCollectorMail == "gmail"
FirstCollector == "chat"

\* `await updateUserTokens(...)` stands inside the try of collectUserData and
\* before the collectors: when it rejects, the user is left out of the cycle
PersistIsFireAndForget == FALSE
PersistIsAwaited == TRUE

\* refreshTokenIfNeeded and the persisting of changed tokens
Refresh(i) ==
  /\ At(i, "refresh")
  /\ LET l == inv[i]
         u == CurUser(l)
         old == l.tok[u]
     IN \E r \in {"throw", "valid", "refreshed", "refreshedNoRT"}, persistOk \in BOOLEAN :
          LET new == CASE r = "refreshed" -> Tokens(FreshAccessToken(old.access_token), "rt2")
                       [] r = "refreshedNoRT" -> Tokens(FreshAccessToken(old.access_token), "")
                       [] OTHER -> old
              changed == new.access_token # old.access_token
              merged == Tokens(new.access_token,
                               IF new.refresh_token # "" THEN new.refresh_token
                               ELSE old.refresh_token)
              begun == [l EXCEPT !.c = ChatStart(spacesFile, u), !.m = MailIdle,
                                 !.refresh = IF r = "refreshedNoRT" THEN "noRT" ELSE "none",
                                 !.pc = IF FirstCollector = "gmail" THEN "mailPlan"
                                        ELSE IF Len(loadSpacesFromJSON(spacesFile)) = 0
                                        THEN "chatStore" ELSE "chatSpace"]
              failed == r = "throw" \/ (changed /\ ~persistOk /\ PersistIsAwaited)
          IN  /\ changed \/ persistOk
              /\ Inject(r # "throw" /\ persistOk)
              /\ IF failed
                 THEN /\ Advance(i, [l EXCEPT !.refreshFailed = @ \cup {u}, !.refresh = "none"])
                      /\ UNCHANGED userRec
                 ELSE /\ userRec' = IF changed /\ persistOk
                                    THEN updateUserTokens(userRec, u, new)
                                    ELSE userRec
                      /\ inv' = [inv EXCEPT ![i] =
                                   [begun EXCEPT !.tok[u] = IF changed THEN merged ELSE old]]
                      /\ UNCHANGED stats
  /\ UNCHANGED <<isRunning, lastRunTime, skipLog, worldVars, chatDocs, gmailDocs,
                 syncLog, spacesFile, rx, pg, rf, cur, st>>

\* where collectUserData goes on after collectChatData has failed: the catch of
\* collectChatData writes the error entry and does not re-throw, and
\* collectUserData wraps the call in its own try/catch
GmailRunsOnlyAfterGoodChat(chatFailed) == ~chatFailed
GmailRunsAfterChat(chatFailed) == TRUE

\* collectChatData is over (chatFailed: through its catch)
AfterChat(i, l, chatFailed) ==
  IF GmailRunsAfterChat(chatFailed)
  THEN /\ inv' = [inv EXCEPT ![i] = [l EXCEPT !.pc = "mailPlan"]]
       /\ UNCHANGED stats
  ELSE Advance(i, l)

\* what the space loop does when the processing of a space has thrown: the
\* catch inside the loop logs, and the loop takes the next space
OnSpaceErrorAbort == "abort"
OnSpaceError == "continue"

\* what an item loop does when fetching or transforming one item has thrown:
\* the catch inside the loop logs a warning, the item is left out
OnItemErrorThrow == "throw"
OnItemError == "skip"

\* the time written when a space has no new message: the value the attempt
\* read from the file when it started
ResetValueNull(latestMessageTime) == NoTime
ResetValue(latestMessageTime) == latestMessageTime

\* the batch after a space failed: spaceMessagesToStore is local to the try
\* block and is pushed only after the page loop and the watermark write
BatchAfterSpaceErrorKeeps(all, spaceMessagesToStore) == all \o spaceMessagesToStore
BatchAfterSpaceError(all, spaceMessagesToStore) == all

\* one iteration of `for (const space of spaces)`: list the messages above the
\* watermark read at the start of the attempt (one page: the model keeps a space
\* below pageSize), transform them (dropped: the messages whose transformation
\* throws, tracked: after their createTime was taken into the latest time),
\* write the watermark, queue the documents; when a page fails, fetched are
\* the messages of the pages before it
ChatSpace(i) ==
  /\ At(i, "chatSpace")
  /\ LET l == inv[i]
         c == l.c
         u == CurUser(l)
         space == c.spaces[c.sidx]
         listed == ChatListed(provChat[space.space_id], space.latest_message_time)
         nextPc == IF c.sidx < Len(c.spaces) THEN "chatSpace" ELSE "chatStore"
     IN \E listOk \in RetryResults, writeOk \in BOOLEAN, dropped \in SUBSET listed,
           tracked \in BOOLEAN :
          /\ listOk \/ (writeOk /\ dropped = {})
          /\ tracked \/ dropped # {}
          /\ InjectN((IF listOk THEN 0 ELSE 1) + (IF writeOk THEN 0 ELSE 1)
                     + Cardinality(dropped))
          /\ IF listOk /\ (dropped = {} \/ OnItemError = "skip")
             THEN LET times == listed \ dropped
                      seen == IF tracked THEN listed ELSE times
                      found == times # {}
                      docs == [k \in 1..Cardinality(times) |->
                                 ChatDoc(u, space.space_id, AscSeq(times)[k])]
                  IN /\ spacesFile' =
                          IF found
                          THEN updateSpaceInJSON(spacesFile, space.space_id, SetMax(seen),
                                                 TRUE, writeOk)
                          ELSE updateSpaceInJSON(spacesFile, space.space_id,
                                                 ResetValue(space.latest_message_time),
                                                 FALSE, writeOk)
                     /\ inv' = [inv EXCEPT ![i].pc = nextPc,
                                  ![i].c = [c EXCEPT !.sidx = @ + 1,
                                                     !.all = @ \o docs,
                                                     !.hasAnyNew = @ \/ found,
                                                     !.writeErrors = @ + (IF writeOk THEN 0 ELSE 1),
                                                     !.dropped = @ \cup ({space.space_id} \X dropped)]]
             ELSE /\ \E fetched \in SUBSET listed :
                   inv' = [inv EXCEPT
                               ![i].pc = IF OnSpaceError = "continue" THEN nextPc
                                         ELSE "chatStore",
                               ![i].c = [c EXCEPT !.sidx = IF OnSpaceError = "continue"
                                                           THEN @ + 1 ELSE Len(c.spaces) + 1,
                                                  !.spaceErrors = @ + 1,
                                                  !.all = BatchAfterSpaceError(@,
                                                     [k \in 1..Cardinality(fetched) |->
                                                        ChatDoc(u, space.space_id,
                                                                AscSeq(fetched)[k])]),
                                                  !.failed = @ \cup {c.sidx},
                                                  !.dropped = @ \cup ({space.space_id} \X dropped)]]
                  /\ UNCHANGED spacesFile
  /\ UNCHANGED <<isRunning, lastRunTime, stats, skipLog, worldVars, dbVars, rx, pg, rf, cur, st>>

\* the error branch of a collector: createSyncLog(..., 'error', ..., 0)
ErrorLog(log, userId, syncType, cycle) ==
  createSyncLog(log, userRec, now, userId, syncType, "error", 0, cycle, TRUE).log

\* insertChatMessages(allChatMessagesToStore)
ChatStore(i) ==
  /\ At(i, "chatStore")
  /\ LET l == inv[i]
         c == l.c
         u == CurUser(l)
     IN IF Len(c.all) > 0
        THEN \E dbOk \in BOOLEAN :
               LET r == insertChatMessages(chatDocs, c.all, dbOk) IN
               /\ Inject(dbOk)
               /\ IF r.thrown
                  THEN /\ syncLog' = ErrorLog(syncLog, u, "chat", l.cycle)
                       /\ AfterChat(i, [l EXCEPT !.c.phase = "failed"], TRUE)
                       /\ UNCHANGED chatDocs
                  ELSE /\ chatDocs' = r.docs
                       /\ inv' = [inv EXCEPT ![i].pc = "chatLog",
                                             ![i].c.total = r.insertedCount]
                       /\ UNCHANGED <<syncLog, stats>>
        ELSE /\ inv' = [inv EXCEPT ![i].pc = "chatLog"]
             /\ UNCHANGED <<chatDocs, syncLog, stats, faults>>
  /\ UNCHANGED <<isRunning, lastRunTime, skipLog, worldVars, gmailDocs, userRec,
                 spacesFile, rx, pg, rf, cur, st>>

\* createSyncLog(user.id, 'chat', 'success', ..., totalMessagesFetchedAndStored)
ChatLog(i) ==
  /\ At(i, "chatLog")
  /\ LET l == inv[i]
         u == CurUser(l)
     IN \E updOk \in BOOLEAN :
          LET r == createSyncLog(syncLog, userRec, now, u, "chat", "success",
                                 l.c.total, l.cycle, updOk) IN
          /\ Inject(updOk)
          /\ userRec' = r.users
          /\ IF r.thrown
             THEN /\ syncLog' = ErrorLog(r.log, u, "chat", l.cycle)
                  /\ AfterChat(i, [l EXCEPT !.c.phase = "failed"], TRUE)
             ELSE /\ syncLog' = r.log
                  /\ AfterChat(i, [l EXCEPT !.c.phase = "ok"], FALSE)
  /\ UNCHANGED <<isRunning, lastRunTime, skipLog, worldVars, chatDocs, gmailDocs,
                 spacesFile, rx, pg, rf, cur, st>>

\* collectGmailData up to the first list call: hasExistingGmailMessages,
\* getLastGmailSyncTime, then the strategy
MailPlan(i) ==
  /\ At(i, "mailPlan")
  /\ LET l == inv[i]
         u == CurUser(l)
     IN \E dbOk \in BOOLEAN :
          /\ Inject(dbOk)
          /\ IF dbOk
             THEN LET has == hasExistingGmailMessages(gmailDocs, u)
                      last == getLastGmailSyncTime(userRec, u)
                      sel == MailStrategy(has, last)
                  IN /\ inv' = [inv EXCEPT ![i].pc = "mailList",
                                  ![i].m = [MailIdle EXCEPT !.user = u, !.planned = TRUE,
                                               !.has = has, !.last = last,
                                               !.q = sel.searchQuery,
                                               !.max = sel.maxResultsToList,
                                               !.phase = "planned"]]
                     /\ UNCHANGED <<syncLog, stats>>
             ELSE /\ syncLog' = ErrorLog(syncLog, u, "gmail", l.cycle)
                  /\ Advance(i, [l EXCEPT !.m = [MailIdle EXCEPT !.user = u, !.phase = "failed"]])
  /\ UNCHANGED <<isRunning, lastRunTime, skipLog, worldVars, chatDocs, gmailDocs, userRec,
                 spacesFile, rx, pg, rf, cur, st>>

\* what the listing loop does on a page without messages: `break`, so that the
\* attempt still reaches its sync record
OnEmptyPageReturn == "return"
OnEmptyPage == "break"

\* the listing loop: list the ids, fetch every message in full (a fetch that
\* fails is skipped), queue the documents newest first
MailList(i) ==
  /\ At(i, "mailList")
  /\ LET l == inv[i]
         m == l.m
         u == CurUser(l)
         listed == MailListed(provMail[u], m.q, now, m.max)
     IN \E listOk \in RetryResults, failed \in SUBSET listed :
          /\ listOk \/ failed = {}
          /\ InjectN(IF listOk THEN Cardinality(failed) ELSE 1)
          /\ IF ~listOk \/ (failed # {} /\ OnItemError = "throw")
             THEN /\ syncLog' = ErrorLog(syncLog, u, "gmail", l.cycle)
                  /\ Advance(i, [l EXCEPT !.m.phase = "failed", !.m.skipped = failed])
             ELSE IF listed = {} /\ OnEmptyPage = "return"
             THEN /\ Advance(i, [l EXCEPT !.m.phase = "ok"])
                  /\ UNCHANGED syncLog
             ELSE LET docs == DescDocs({GmailDoc(u, msg.id, msg.t) : msg \in listed \ failed})
                  IN /\ inv' = [inv EXCEPT
                                  ![i].pc = IF Len(docs) > 0 THEN "mailStore" ELSE "mailLog",
                                  ![i].m = [m EXCEPT !.listed = Cardinality(listed),
                                                     !.toStore = docs, !.phase = "listed",
                                                     !.skipped = failed]]
                     /\ UNCHANGED <<syncLog, stats>>
  /\ UNCHANGED <<isRunning, lastRunTime, skipLog, worldVars, chatDocs, gmailDocs, userRec,
                 spacesFile, rx, pg, rf, cur, st>>

\* insertGmailMessages(gmailMessagesToStore)
MailStore(i) ==
  /\ At(i, "mailStore")
  /\ LET l == inv[i]
         u == CurUser(l)
     IN \E dbOk \in BOOLEAN :
          LET r == insertGmailMessages(gmailDocs, l.m.toStore, dbOk) IN
          /\ Inject(dbOk)
          /\ IF r.thrown
             THEN /\ syncLog' = ErrorLog(syncLog, u, "gmail", l.cycle)
                  /\ Advance(i, [l EXCEPT !.m.phase = "failed"])
                  /\ UNCHANGED gmailDocs
             ELSE /\ gmailDocs' = r.docs
                  /\ inv' = [inv EXCEPT ![i].pc = "mailLog",
                                        ![i].m.total = r.insertedCount]
                  /\ UNCHANGED <<syncLog, stats>>
  /\ UNCHANGED <<isRunning, lastRunTime, skipLog, worldVars, chatDocs, userRec,
                 spacesFile, rx, pg, rf, cur, st>>

\* createSyncLog(user.id, 'gmail', 'success', ..., totalMessagesStored)
MailLog(i) ==
  /\ At(i, "mailLog")
  /\ LET l == inv[i]
         u == CurUser(l)
     IN \E updOk \in BOOLEAN :
          LET r == createSyncLog(syncLog, userRec, now, u, "gmail", "success",
                                 l.m.total, l.cycle, updOk) IN
          /\ Inject(updOk)
          /\ userRec' = r.users
          /\ IF r.thrown
             THEN /\ syncLog' = ErrorLog(r.log, u, "gmail", l.cycle)
                  /\ Advance(i, [l EXCEPT !.m.phase = "failed"])
             ELSE /\ syncLog' = r.log
                  /\ Advance(i, [l EXCEPT !.m.phase = "ok"])
  /\ UNCHANGED <<isRunning, lastRunTime, skipLog, worldVars, chatDocs, gmailDocs,
                 spacesFile, rx, pg, rf, cur, st>>

\* what a throwing analysis does: its own catch logs, the outer catch is not
\* reached
OnAnalysisError == "log"

\* analyzeMessagesForResponsePrediction() returned or threw; then `finally`
Analyze(i) ==
  /\ At(i, "analyze")
  /\ \E analysisOk \in BOOLEAN :
       /\ Inject(analysisOk)
       /\ stats' = IF analysisOk \/ OnAnalysisError = "log" THEN stats
                   ELSE [stats EXCEPT ![inv[i].this].failedRuns = @ + 1,
                                      ![inv[i].this].lastError = TRUE]
  /\ isRunning' = [isRunning EXCEPT ![inv[i].this] = RunningAfterFinally]
  /\ inv' = [inv EXCEPT ![i].pc = "idle"]
  /\ UNCHANGED <<lastRunTime, skipLog, worldVars, dbVars, spacesFile, rx, pg, rf, cur, st>>

\* the SIGTERM / SIGINT handler registered by start(): task.stop() and then
\* process.exit(0); every invocation in flight ends where it stands
Signals == {"SIGTERM", "SIGINT"}
Shutdown(sig) ==
  /\ ~exited
  /\ exited' = TRUE
  /\ UNCHANGED <<orchVars, provChat, provMail, now, calls, faults, dbVars, spacesFile,
                 rx, pg, rf, cur, st>>

(***************************************************************************)
(* The list loops of the collectors, against any provider                  *)
(***************************************************************************)
ChatPageSize == 100
GmailPageSize == 100

\* bounds: where the counters of list calls and of chat items stop growing
MaxPages == 3
MaxGot == 201

Min2(a, b) == IF a <= b THEN a ELSE b

PgIdle == [kind |-> "none", pc |-> "idle", first |-> FALSE, token |-> 0, pages |-> 0,
           got |-> 0, listed |-> 0, max |-> 0]

\* a nextPageToken of the provider: an opaque value, 0 stands for none
NextToken(token) == IF token = 1 THEN 2 ELSE 1

\* a space is taken up: the filter is set iff the space has a watermark, and
\* `let nextPageToken = null`
EnterChatLoop ==
  /\ pg.pc = "idle"
  /\ \E first \in BOOLEAN :
       pg' = [PgIdle EXCEPT !.kind = "chat", !.pc = "list", !.first = first]
  /\ UNCHANGED <<orchVars, envVars, dbVars, spacesFile, rx, rf, cur, st>>

\* one turn of the do-while of collectChatData: the list call (through
\* executeWithRetry), the messages of the page, the continuation token
ChatPage ==
  /\ pg.kind = "chat"
  /\ pg.pc = "list"
  /\ \E ok \in RetryResults, n \in {0, 1, ChatPageSize}, more \in BOOLEAN :
       pg' = IF ~ok
             THEN [pg EXCEPT !.pc = "thrown"]
             ELSE IF n = 0 /\ pg.token = 0
             THEN [pg EXCEPT !.pc = "done", !.pages = Min2(@ + 1, MaxPages)]
             ELSE [pg EXCEPT !.pages = Min2(@ + 1, MaxPages),
                             !.got = Min2(@ + n, MaxGot),
                             !.token = IF more THEN NextToken(@) ELSE 0,
                             !.pc = IF more THEN "list" ELSE "done"]
  /\ UNCHANGED <<orchVars, envVars, dbVars, spacesFile, rx, rf, cur, st>>

\* collectGmailData after its strategy: listedMessagesCount = 0, no token
EnterMailLoop ==
  /\ pg.pc = "idle"
  /\ \E has \in BOOLEAN, last \in {NoTime, T0} :
       pg' = [PgIdle EXCEPT !.kind = "gmail", !.pc = "list",
                            !.max = MailStrategy(has, last).maxResultsToList]
  /\ UNCHANGED <<orchVars, envVars, dbVars, spacesFile, rx, rf, cur, st>>

\* maxResults of the next users.messages.list call
RequestedPage(maxResultsToList, listedMessagesCount) ==
  Min2(GmailPageSize, maxResultsToList - listedMessagesCount)

\* `while (nextPageToken && listedMessagesCount < maxResultsToList)`
ContinueListingOnToken(hasToken, listedMessagesCount, maxResultsToList) == hasToken
ContinueListing(hasToken, listedMessagesCount, maxResultsToList) ==
  hasToken /\ listedMessagesCount < maxResultsToList

\* one turn of the do-while of collectGmailData: the list call asks for
\* min(GMAIL_PAGE_SIZE, maxResultsToList - listedMessagesCount) ids and the
\* provider answers with at most that many
MailPage ==
  /\ pg.kind = "gmail"
  /\ pg.pc = "list"
  /\ \E ok \in RetryResults, more \in BOOLEAN,
        n \in {0, 1, RequestedPage(pg.max, pg.listed)} :
       pg' = IF ~ok
             THEN [pg EXCEPT !.pc = "thrown"]
             ELSE IF n = 0
             THEN [pg EXCEPT !.pc = "done", !.pages = Min2(@ + 1, MaxPages)]
             ELSE [pg EXCEPT !.pages = Min2(@ + 1, MaxPages),
                             !.listed = @ + n,
                             !.token = IF ContinueListing(more, pg.listed + n, pg.max)
                                       THEN NextToken(@) ELSE 0,
                             !.pc = IF ContinueListing(more, pg.listed + n, pg.max)
                                    THEN "list" ELSE "done"]
  /\ UNCHANGED <<orchVars, envVars, dbVars, spacesFile, rx, rf, cur, st>>

(***************************************************************************)
(* The provider receives items while a collection is in progress           *)
(***************************************************************************)
\* bound: items that appear per mailbox / per space during a behaviour
MaxArrivals == 1
\* the id of a mail that appears during a collection
ArrivalId == 2

MailArrivals(mailbox) == {msg \in mailbox : msg.id >= ArrivalId}
ChatArrivals(times) == {t \in times : t \notin ChatTimes}

\* a mail is delivered to the user's mailbox after users.messages.list has
\* answered and before the attempt's success record is written; its
\* internalDate is the instant of delivery
MailArrive ==
  /\ \E i \in Slots :
       /\ inv[i].pc \in {"mailStore", "mailLog"}
       /\ LET u == CurUser(inv[i]) IN
          /\ Cardinality(MailArrivals(provMail[u])) < MaxArrivals
          /\ provMail' = [provMail EXCEPT ![u] = @ \cup {MailMsg(ArrivalId, now)}]
  /\ UNCHANGED <<orchVars, dbVars, provChat, now, calls, faults, exited, spacesFile,
                 rx, pg, rf, cur, st>>

\* a message is posted to a space after spaces.messages.list has answered for
\* it and before the attempt's success record is written; its createTime is
\* the instant of posting
ChatArrive ==
  /\ \E i \in Slots :
       /\ inv[i].pc \in {"chatSpace", "chatStore", "chatLog"}
       /\ \E k \in 1..Len(inv[i].c.spaces) :
            LET s == inv[i].c.spaces[k].space_id IN
            /\ k < inv[i].c.sidx
            /\ Cardinality(ChatArrivals(provChat[s])) < MaxArrivals
            /\ provChat' = [provChat EXCEPT ![s] = @ \cup {now}]
  /\ UNCHANGED <<orchVars, dbVars, provMail, now, calls, faults, exited, spacesFile,
                 rx, pg, rf, cur, st>>

(***************************************************************************)
(* Initial states and specifications                                       *)
(***************************************************************************)
NoFile == [exists |-> FALSE, data |-> <<>>]
FileOf(data) == [exists |-> TRUE, data |-> data]

\* the file as a first cycle finds it: S1 has a watermark, S2 was never fetched
InitFiles == {FileOf(<<SpaceEntry("S1", T0, FALSE), SpaceEntry("S2", NoTime, FALSE)>>)}
InitChats == {[s \in Spaces |-> IF s = "S1" THEN {T0, T0 + 1, T0 + 2, T0 + 5} ELSE {}],
              [s \in Spaces |-> IF s = "S1" THEN {T0, T0 + 2} ELSE {T0 + 5}]}
InitMails == {[u \in Users |-> IF u = "A" THEN {} ELSE {MailMsg(1, T0 + 2000)}],
              [u \in Users |-> IF u = "A" THEN {MailMsg(1, T0 + 2000), MailMsg(2, T0 + 3000)}
                               ELSE {}]}

NewUser == [access_token |-> "at1", refresh_token |-> "rt1",
            last_gmail_sync |-> NoTime, last_chat_sync |-> NoTime]
\* a user that has not (yet) authorized: no tokens
NoTokenUser == [access_token |-> "", refresh_token |-> "",
                last_gmail_sync |-> NoTime, last_chat_sync |-> NoTime]

\* everything but the provider, the cursor file and the chat store; k failures
\* of the environment's budget are already spent
InitWith(k, active) ==
  /\ isRunning = [f \in Fetchers |-> FALSE]
  /\ lastRunTime = [f \in Fetchers |-> NoTime]
  /\ stats = [f \in Fetchers |-> [totalRuns |-> 0, successfulRuns |-> 0,
                                   failedRuns |-> 0, lastError |-> FALSE]]
  /\ exited = FALSE
  /\ skipLog = 0
  /\ inv = [i \in Slots |-> SlotIdle]
  /\ now = T0 + 5000
  /\ calls = 0
  /\ faults = k
  /\ userRec = [u \in Users |-> IF u \in active THEN NewUser ELSE NoTokenUser]
  /\ syncLog = <<>>
  /\ gmailDocs = {}
  /\ rx = RxIdle
  /\ cur = CurIdle
  /\ st = StIdle
  /\ pg = PgIdle
  /\ rf = RfIdle

InitBase == InitWith(0, Users)

\* the world the single-scenario specifications start from
InitWorld ==
  /\ spacesFile = FileOf(<<SpaceEntry("S1", T0, FALSE), SpaceEntry("S2", NoTime, FALSE)>>)
  /\ provChat = [s \in Spaces |-> IF s = "S1" THEN {T0, T0 + 2} ELSE {T0 + 5}]
  /\ provMail = [u \in Users |-> IF u = "A" THEN {MailMsg(1, T0 + 2000)} ELSE {}]
  /\ chatDocs = SetToBag({ChatDoc(u, "S1", T0) : u \in Users})

Init ==
  \/ /\ InitBase
     /\ spacesFile \in InitFiles
     /\ provChat \in InitChats
     /\ provMail \in InitMails
     /\ chatDocs = SetToBag({ChatDoc(u, "S1", T0) : u \in Users})
  \/ /\ InitWith(0, {})
     /\ InitWorld
  \/ /\ InitBase          \* the cursor file is missing
     /\ spacesFile = NoFile
     /\ provChat = [s \in Spaces |-> IF s = "S1" THEN {T0, T0 + 2} ELSE {T0 + 5}]
     /\ provMail = [u \in Users |-> {}]
     /\ chatDocs = SetToBag({ChatDoc(u, "S1", T0) : u \in Users})

\* one step of a cycle in flight
Step(i) ==
  \/ Enumerate(i)
  \/ Refresh(i)
  \/ ChatSpace(i)
  \/ ChatStore(i)
  \/ ChatLog(i)
  \/ MailPlan(i)
  \/ MailList(i)
  \/ MailStore(i)
  \/ MailLog(i)
  \/ Analyze(i)

Next ==
  \/ \E src \in Sources : Trigger(src)
  \/ \E i \in Slots :
       \/ Enumerate(i)
       \/ Refresh(i)
       \/ ChatSpace(i)
       \/ ChatStore(i)
       \/ ChatLog(i)
       \/ MailPlan(i)
       \/ MailList(i)
       \/ MailStore(i)
       \/ MailLog(i)
       \/ Analyze(i)

Spec == Init /\ [][Next]_vars

\* the long-running process when every awaited call eventually returns or
\* throws: a cycle in flight keeps taking steps
InitLive ==
  \/ InitWith(0, Users) /\ InitWorld
  \/ InitWith(0, {}) /\ InitWorld

SpecLive == InitLive /\ [][Next]_vars /\ WF_vars(\E i \in Slots : Step(i))

\* the long-running process with its signal handlers
NextSignals ==
  \/ \E src \in Sources : Trigger(src)
  \/ \E sig \in Signals : Shutdown(sig)
  \/ \E i \in Slots : Step(i)

InitSignals ==
  /\ InitWith(0, Users)
  /\ InitWorld

SpecSignals == InitSignals /\ [][NextSignals]_vars

\* the serverless deployment: every cycle is started by an HTTP handler
InitHttp ==
  /\ InitWith(MaxFaults, {"A"})
  /\ InitWorld

NextHttp ==
  \/ \E h \in Handlers : HttpRequest(h)
  \/ \E i \in Slots : Step(i)

SpecHttp == InitHttp /\ [][NextHttp]_vars

\* one user's cycles while the provider receives new items: no call fails
InitArrive ==
  /\ InitWith(MaxFaults, {"A"})
  /\ InitWorld

NextArrive ==
  \/ \E src \in Sources : Trigger(src)
  \/ \E i \in Slots : Step(i)
  \/ MailArrive
  \/ ChatArrive

SpecArrive == InitArrive /\ [][NextArrive]_vars

\* executeWithRetry on its own, over every outcome oracle
InitRetry ==
  /\ InitBase
  /\ spacesFile = NoFile
  /\ provChat = [s \in Spaces |-> {}]
  /\ provMail = [u \in Users |-> {}]
  /\ chatDocs = EmptyBag

NextRetry == CallExecuteWithRetry

SpecRetry == InitRetry /\ [][NextRetry]_vars

\* updateSpaceInJSON on its own, over every sequence of calls
CursorFiles == {NoFile,
                FileOf(<<SpaceEntry("S1", NoTime, FALSE)>>),
                FileOf(<<SpaceEntry("S1", T0, FALSE), SpaceEntry("S2", NoTime, FALSE)>>)}

InitCursor ==
  /\ InitBase
  /\ spacesFile \in CursorFiles
  /\ provChat = [s \in Spaces |-> {}]
  /\ provMail = [u \in Users |-> {}]
  /\ chatDocs = EmptyBag

NextCursor == UpdateSpaceCall

SpecCursor == InitCursor /\ [][NextCursor]_vars

\* createSyncLog on its own, over every sequence of calls
NextLog == CreateSyncLogCall

SpecLog == InitRetry /\ [][NextLog]_vars

\* the two insert functions on their own, over every sequence of batches
NextStore == InsertGmailCall \/ InsertChatCall

SpecStore == InitRetry /\ [][NextStore]_vars

\* refreshTokenIfNeeded on its own, over every outcome oracle
NextRefresh == CallRefreshTokenIfNeeded

SpecRefresh == InitRetry /\ [][NextRefresh]_vars

\* the list loops on their own; a loop in flight keeps turning as long as the
\* awaited list call returns or throws
NextPages == EnterChatLoop \/ ChatPage \/ EnterMailLoop \/ MailPage

SpecPages == InitRetry /\ [][NextPages]_vars /\ WF_vars(ChatPage \/ MailPage)

(***************************************************************************)
(* Properties                                                              *)
(***************************************************************************)
Running == {i \in Slots : inv[i].pc # "idle"}
RunningOn(f) == {i \in Running : inv[i].this = f}

\* the SYNC_LOG entries a cycle wrote for one user and source
Entries(cy, u, ty) ==
  {k \in DOMAIN syncLog : /\ syncLog[k].cycle = cy
                          /\ syncLog[k].user_id = u
                          /\ syncLog[k].sync_type = ty}

TransientCodes == {429, 503}

\* C1: a collectAllData call made while a cycle is Running changes nothing but
\* the count of 'skipped' warnings, which grows by exactly one; and at most one
\* call is past the entry guard at any time
C1_OverlapGuard ==
  /\ [][(isRunning[Main] /\ calls' = calls + 1) =>
          /\ skipLog' = skipLog + 1
          /\ inv' = inv
          /\ lastRunTime' = lastRunTime
          /\ stats' = stats
          /\ isRunning'[Main]
          /\ UNCHANGED <<dbVars, spacesFile>>]_vars
  /\ [](\A f \in Fetchers :
          /\ Cardinality(RunningOn(f)) <= 1
          /\ (isRunning[f] <=> RunningOn(f) # {}))

C1_Witness ==
  /\ skipLog = 1
  /\ isRunning[Main]
  /\ \E i \in Slots : inv[i].pc = "chatStore" /\ inv[i].uidx = 2

\* C2: when a cycle has gone through its users, a failed chat collection for a
\* user A did not keep mail collection for A from running and being logged, nor
\* chat and mail collection for any other user B whose refresh succeeded
C2_FailureIsolation ==
  \A i \in Slots :
    inv[i].pc = "analyze" =>
      \A a \in Users :
        (\E k \in Entries(inv[i].cycle, a, "chat") : syncLog[k].status = "error") =>
          /\ Entries(inv[i].cycle, a, "gmail") # {}
          /\ \A b \in Users \ ({a} \cup inv[i].refreshFailed) :
               /\ Entries(inv[i].cycle, b, "chat") # {}
               /\ Entries(inv[i].cycle, b, "gmail") # {}

C2_Witness ==
  \E i \in Slots :
    /\ inv[i].pc = "analyze"
    /\ \E k \in Entries(inv[i].cycle, "A", "chat") : syncLog[k].status = "error"
    /\ \E k \in Entries(inv[i].cycle, "A", "gmail") : syncLog[k].status = "success"
    /\ \E k \in Entries(inv[i].cycle, "B", "chat") : syncLog[k].status = "success"
    /\ \E k \in Entries(inv[i].cycle, "B", "gmail") : syncLog[k].status = "success"

\* C3: whenever a space's watermark is a time t, a message of that space with
\* timestamp t is in the chat store (the items are stored before the watermark
\* is written, and a failed store leaves the watermarks alone)
C3_StoredBeforeWatermark ==
  \A s \in Spaces :
    Watermark(spacesFile, s) # NoTime =>
      \E d \in BagToSet(chatDocs) :
        d.space_id = s /\ d.message_time = Watermark(spacesFile, s)

\* C4: after updateSpaceInJSON(space, t) has written, the watermark of the space
\* is the later of t and the value it had before (never moved backward)
C4_NeverBackward ==
  (cur.called /\ cur.known /\ cur.writeOk) =>
     Watermark(spacesFile, cur.space) = Max2(cur.before, cur.t)

\* C5: with the default arguments, an operation that is transient-failing on
\* every attempt is invoked exactly 3 times, with two strictly increasing
\* sleeps in between, and the last error is thrown
C5_RetryBound ==
  (/\ rx.called
   /\ rx.maxRetries = DefaultMaxRetries
   /\ \A k \in 1..DefaultMaxRetries : rx.outs[k] \in TransientCodes) =>
     /\ rx.res.calls = 3
     /\ rx.res.result = "thrown"
     /\ rx.res.code = rx.outs[3]
     /\ Len(rx.res.sleeps) = 2
     /\ rx.res.sleeps[1] < rx.res.sleeps[2]

C5_Witness ==
  /\ rx.called
  /\ rx.maxRetries = DefaultMaxRetries
  /\ rx.baseDelay = DefaultBaseDelay
  /\ \A k \in 1..DefaultMaxRetries : rx.outs[k] = 429
  /\ rx.res.result = "thrown"

\* C6: the first attempt that does not fail with 429/503 ends the call: a
\* success is returned, any other error is thrown at once, and no sleep follows
\* that attempt
C6_OnlyTransientRetried ==
  rx.called =>
    \A k \in 1..rx.maxRetries :
      (/\ rx.outs[k] \notin TransientCodes
       /\ \A j \in 1..(k - 1) : rx.outs[j] \in TransientCodes) =>
         /\ rx.res.calls = k
         /\ Len(rx.res.sleeps) = k - 1
         /\ rx.res.code = rx.outs[k]
         /\ rx.res.result = IF rx.outs[k] \in SuccessCodes THEN "returned" ELSE "thrown"

C6_Witness ==
  /\ rx.called
  /\ rx.maxRetries = DefaultMaxRetries
  /\ rx.outs[1] = 503
  /\ rx.outs[2] = 403
  /\ rx.res.calls = 2
  /\ rx.res.result = "thrown"

\* C7: inserting the batch that was just inserted leaves both stores as they
\* were before the second insertion
C7_DuplicateSafe ==
  (st.repeat /\ ~st.thrown) =>
     /\ gmailDocs = st.gmailBefore
     /\ chatDocs = st.chatBefore

NewerThan(space) ==
  {t \in provChat[space.space_id] :
     space.latest_message_time = NoTime \/ t > space.latest_message_time}

RECURSIVE SumNewer(_, _)
SumNewer(spaces, k) ==
  IF k > Len(spaces) THEN 0
  ELSE Cardinality(NewerThan(spaces[k])) + SumNewer(spaces, k + 1)

\* C9: a chat attempt that ran without any failure stored as many items as the
\* provider held above the watermarks it read, wrote one success entry with that
\* count, and left every such space's watermark at the newest of those items
C9_ChatExample ==
  \A i \in Slots :
    LET c == inv[i].c IN
    (/\ inv[i].pc = "mailPlan"
     /\ c.phase = "ok"
     /\ c.spaceErrors = 0
     /\ c.writeErrors = 0) =>
       /\ c.total = SumNewer(c.spaces, 1)
       /\ \A k \in Entries(inv[i].cycle, c.user, "chat") :
            syncLog[k].status = "success" /\ syncLog[k].item_count = SumNewer(c.spaces, 1)
       /\ Cardinality(Entries(inv[i].cycle, c.user, "chat")) = 1
       /\ \A k \in 1..Len(c.spaces) :
            NewerThan(c.spaces[k]) # {} =>
              Watermark(spacesFile, c.spaces[k].space_id) = SetMax(NewerThan(c.spaces[k]))

\* C10: a mail attempt that completed with zero listed messages wrote exactly
\* one entry for that user in that cycle: a success with item count 0
C10_ZeroMailIsSuccess ==
  \A i \in Slots :
    LET m == inv[i].m IN
    (m.phase = "ok" /\ m.listed = 0) =>
      /\ Cardinality(Entries(inv[i].cycle, m.user, "gmail")) = 1
      /\ \A k \in Entries(inv[i].cycle, m.user, "gmail") :
           syncLog[k].status = "success" /\ syncLog[k].item_count = 0

C10_Witness ==
  \E i \in Slots :
    LET m == inv[i].m IN
    /\ m.phase = "ok"
    /\ m.planned
    /\ ~m.has
    /\ m.listed = 0
    /\ \E k \in Entries(inv[i].cycle, m.user, "gmail") : syncLog[k].item_count = 0

\* the invocations that are between user enumeration and the end of the user loop
ProcessingUsers ==
  {i \in Slots : inv[i].pc \notin {"idle", "enumerate", "analyze"}}

\* C11: whatever way collectAllData is invoked (here: the HTTP cron and
\* manual-trigger handlers), an invocation that arrives while a cycle is Running
\* is skipped, so at no time are two cycles processing users
C11_SameGuardForAllTriggers == Cardinality(ProcessingUsers) <= 1

\* C12: when the credential refresh of a user has failed in a cycle, the cycle
\* has an error entry for that user, no chat or mail entry of a collection that
\* ran for that user, and the cycle went on (the user's processing has ended)
C12_RefreshFailureRecorded ==
  \A i \in Slots :
    \A u \in inv[i].refreshFailed :
      LET mine == Entries(inv[i].cycle, u, "chat") \cup Entries(inv[i].cycle, u, "gmail")
      IN  /\ \E k \in mine : syncLog[k].status = "error"
          /\ \A k \in mine : syncLog[k].status # "success"
          /\ u \in inv[i].ended

\* the queued chat documents of an invocation whose watermark has been written
\* while the documents themselves are not in the store
AdvancedButUnstored(i) ==
  {k \in 1..Len(inv[i].c.all) :
     LET doc == inv[i].c.all[k] IN
     /\ inv[i].pc \in {"chatSpace", "chatStore"}
     /\ Watermark(spacesFile, doc.space_id) >= doc.message_time
     /\ ~BagIn(doc, chatDocs)}

\* C13: after a shutdown signal no further collectAllData call is made, and the
\* cycle that was Running has not been cut off between the writing of a
\* watermark and the storing of the items the watermark stands for
C13_GracefulShutdown ==
  /\ [][exited => calls' = calls]_vars
  /\ [](exited => \A i \in Slots : AdvancedButUnstored(i) = {})

ChatPcs == {"chatSpace", "chatStore", "chatLog"}
MailPcs == {"mailPlan", "mailList", "mailStore", "mailLog"}

\* C14: in a cycle the users are processed one after another (when user k is
\* being processed, exactly the users before k have ended), the mail collection
\* of a user runs only when the chat collection of that user has ended, with
\* or without success, and the two collectors are never in progress together
C14_StrictlySequential ==
  \A i \in Slots :
    LET l == inv[i] IN
    /\ l.pc \in ChatPcs \cup MailPcs \cup {"refresh"} =>
          l.ended = {l.users[j] : j \in 1..(l.uidx - 1)}
    /\ l.pc = "analyze" => l.ended = {l.users[j] : j \in 1..Len(l.users)}
    /\ l.pc \in ChatPcs =>
          /\ l.c.user = CurUser(l)
          /\ l.c.phase = "spaces"
          /\ l.m.phase = "none"
    /\ l.pc \in MailPcs =>
          /\ l.c.user = CurUser(l)
          /\ l.c.phase \in {"ok", "failed"}
          /\ l.m.phase # "none" => l.m.user = CurUser(l)

C14_Witness ==
  \E i \in Slots :
    /\ inv[i].pc = "mailList"
    /\ inv[i].uidx = 2
    /\ inv[i].ended = {"A"}
    /\ inv[i].c.phase = "failed"
    /\ inv[i].c.user = "B"

SyncTypes == {"chat", "gmail"}

\* C15: when a cycle has gone through its users, it has written exactly one
\* sync entry for every one of its users and each of the two sources
C15_OneRecordPerUserAndSource ==
  \A i \in Slots :
    inv[i].pc = "analyze" =>
      \A k \in 1..Len(inv[i].users), ty \in SyncTypes :
        Cardinality(Entries(inv[i].cycle, inv[i].users[k], ty)) = 1

\* C16: a createSyncLog call changes a last-sync marker of a user only if it
\* recorded a success for that user, and then only the marker of the recorded
\* source; the stored tokens are left alone
C16_MarkerOnlyOnSuccess ==
  [][Len(syncLog') = Len(syncLog) + 1 =>
       LET e == syncLog'[Len(syncLog')] IN
       \A u \in Users :
         /\ userRec'[u].last_chat_sync # userRec[u].last_chat_sync =>
               (e.user_id = u /\ e.sync_type = "chat" /\ e.status = "success")
         /\ userRec'[u].last_gmail_sync # userRec[u].last_gmail_sync =>
               (e.user_id = u /\ e.sync_type = "gmail" /\ e.status = "success")
         /\ userRec'[u].access_token = userRec[u].access_token
         /\ userRec'[u].refresh_token = userRec[u].refresh_token]_vars

C16_Witness ==
  /\ Len(syncLog) = 2
  /\ syncLog[1] = LogEntry("A", "gmail", "error", 0, 0)
  /\ syncLog[2] = LogEntry("A", "chat", "success", 1, 0)
  /\ userRec["A"].last_chat_sync = getLocalDate(now - 1)
  /\ userRec["A"].last_gmail_sync = NoTime
  /\ userRec["B"] = NewUser

\* the (space, time) pairs of the chat messages stored for a user
StoredFor(u) ==
  {<<doc.space_id, doc.message_time>> : doc \in {x \in BagToSet(chatDocs) : x.user_id = u}}

\* C17: the watermark advance made while collecting for one user does not move
\* the lower bound of another user: when a cycle in which nothing failed has
\* gone through users that started from the same stored messages, every
\* message it stored for one of them is stored for the others as well
C17_WatermarkPerUser ==
  \A i \in Slots :
    (inv[i].pc = "analyze" /\ faults = 0) =>
      \A a \in inv[i].ended, b \in inv[i].ended : StoredFor(a) \subseteq StoredFor(b)

\* C18: a chat attempt that found the cursor store missing or unreadable (it
\* loaded no space) and ended with a success entry has collected something
\* whenever the provider holds messages that are not stored for the user
C18_LostCursorStillCollects ==
  \A i \in Slots :
    LET c == inv[i].c IN
    (/\ c.phase = "ok"
     /\ Len(c.spaces) = 0
     /\ \E s \in Spaces : \E t \in provChat[s] : <<s, t>> \notin StoredFor(c.user)) =>
       c.total > 0

\* the mail messages of a user the last-sync marker has moved over without
\* their being stored, in a mail attempt that ended with a success entry
MailSkipped(i) ==
  LET m == inv[i].m IN
  {msg \in provMail[m.user] :
     /\ msg.t > m.last
     /\ msg.t <= userRec[m.user].last_gmail_sync
     /\ GmailDoc(m.user, msg.id, msg.t) \notin gmailDocs}

\* the chat messages a space watermark has moved over without their being stored
\* for the user, in a chat attempt that ended with a success entry
ChatSkipped(i) ==
  LET c == inv[i].c IN
  {<<k, t>> \in (1..Len(c.spaces)) \X ChatTimes :
     /\ t \in provChat[c.spaces[k].space_id]
     /\ t > c.spaces[k].latest_message_time
     /\ t <= Watermark(spacesFile, c.spaces[k].space_id)
     /\ <<c.spaces[k].space_id, t>> \notin StoredFor(c.user)}

\* C19: when an attempt has ended with a success entry, every provider item
\* between the watermark the attempt started from and the watermark it left
\* is stored
C19_NoItemSkipped ==
  \A i \in Slots :
    /\ (inv[i].m.phase = "ok" /\ inv[i].pc \in {"refresh", "analyze"}) => MailSkipped(i) = {}
    /\ (inv[i].c.phase = "ok" /\ inv[i].pc = "mailPlan") => ChatSkipped(i) = {}

C21_BoundedCalls == (pg.pc = "list") ~> (pg.pc # "list")

\* C22: when a chat attempt is over and the processing of one of its spaces
\* failed, the cycle has written an error entry for that user's chat source
C22_SpaceFailureRecorded ==
  \A i \in Slots :
    (inv[i].pc = "mailPlan" /\ inv[i].c.spaceErrors > 0) =>
      \E k \in Entries(inv[i].cycle, inv[i].c.user, "chat") : syncLog[k].status = "error"

\* C23: executeWithRetry sleeps baseDelay * 2^(n-1) after failed attempt n and
\* before attempt n+1 (1000 ms, then 2000 ms with the defaults), and never
\* after its last attempt: there is one sleep less than there are attempts
C23_BackoffSchedule ==
  rx.called =>
    /\ Len(rx.res.sleeps) = rx.res.calls - 1
    /\ rx.res.calls <= rx.maxRetries
    /\ \A n \in 1..Len(rx.res.sleeps) : rx.res.sleeps[n] = rx.baseDelay * 2^(n - 1)
    /\ (/\ rx.maxRetries = DefaultMaxRetries
        /\ rx.baseDelay = DefaultBaseDelay
        /\ rx.res.calls = 3) => rx.res.sleeps = <<1000, 2000>>

C23_Witness ==
  /\ rx.called
  /\ rx.maxRetries = DefaultMaxRetries
  /\ rx.baseDelay = DefaultBaseDelay
  /\ \A k \in 1..DefaultMaxRetries : rx.outs[k] = 503
  /\ rx.res.result = "thrown"
  /\ rx.res.sleeps = <<1000, 2000>>

\* C24: when a chat attempt has ended with a success entry and no space failed,
\* every provider message of a space whose timestamp is at least one
\* millisecond above the watermark the attempt read is stored for the user
C24_LowerBound ==
  \A i \in Slots :
    LET c == inv[i].c IN
    (inv[i].pc = "mailPlan" /\ c.phase = "ok" /\ c.spaceErrors = 0) =>
      \A k \in 1..Len(c.spaces) :
        c.spaces[k].latest_message_time # NoTime =>
          \A t \in provChat[c.spaces[k].space_id] :
            t >= c.spaces[k].latest_message_time + 1 =>
              <<c.spaces[k].space_id, t>> \in StoredFor(c.user)

\* C25: for a space without a watermark the page loop makes one list call and
\* takes at most one page (100 messages)
C25_FirstFetchOnePage ==
  (pg.kind = "chat" /\ pg.first) => (pg.pages <= 1 /\ pg.got <= ChatPageSize)

\* the messages the list call for the k-th space of a chat attempt returns that
\* were transformed into documents
Kept(c, k) ==
  {t \in ChatListed(provChat[c.spaces[k].space_id], c.spaces[k].latest_message_time) :
     <<c.spaces[k].space_id, t>> \notin c.dropped}

\* their number over the spaces (from the k-th on) whose processing did not fail
RECURSIVE SumKept(_, _)
SumKept(c, k) ==
  IF k > Len(c.spaces) THEN 0
  ELSE (IF k \in c.failed THEN 0 ELSE Cardinality(Kept(c, k))) + SumKept(c, k + 1)

\* C26: once the space loop of a chat attempt is over, every space of the list
\* was taken up, whichever spaces failed, and the batch holds the messages of
\* the spaces that did not fail; an attempt that ended with a success entry
\* stored them all and reported their number
C26_SpaceFailureIsLocal ==
  \A i \in Slots :
    LET c == inv[i].c IN
    /\ inv[i].pc \in {"chatStore", "chatLog", "mailPlan"} =>
         /\ c.sidx = Len(c.spaces) + 1
         /\ Len(c.all) = SumKept(c, 1)
    /\ (inv[i].pc = "mailPlan" /\ c.phase = "ok") =>
         /\ \A k \in (1..Len(c.spaces)) \ c.failed : \A t \in Kept(c, k) :
              <<c.spaces[k].space_id, t>> \in StoredFor(c.user)
         /\ \E k \in Entries(inv[i].cycle, c.user, "chat") :
              syncLog[k].status = "success" /\ syncLog[k].item_count = SumKept(c, 1)

C26_Witness ==
  \E i \in Slots :
    /\ inv[i].pc = "mailPlan"
    /\ inv[i].c.phase = "ok"
    /\ inv[i].c.failed = {1}
    /\ inv[i].c.total = 1
    /\ <<"S2", T0 + 5>> \in StoredFor(inv[i].c.user)
    /\ \E k \in Entries(inv[i].cycle, inv[i].c.user, "chat") :
         syncLog[k].status = "success" /\ syncLog[k].item_count = 1

\* the step in which invocation i went through a chat space and left out
\* messages whose transformation threw: the space did not fail, and the other
\* messages of the space were queued
ChatItemSkipStep(i) ==
  LET c == inv[i].c
      space == c.spaces[c.sidx]
      listed == ChatListed(provChat[space.space_id], space.latest_message_time)
      kept == {t \in listed : <<space.space_id, t>> \notin inv'[i].c.dropped}
  IN  /\ inv'[i].c.failed = c.failed
      /\ inv'[i].c.spaceErrors = c.spaceErrors
      /\ inv'[i].pc \in {"chatSpace", "chatStore"}
      /\ Len(inv'[i].c.all) = Len(c.all) + Cardinality(kept)
      /\ \A t \in kept : \E k \in DOMAIN inv'[i].c.all :
           inv'[i].c.all[k] = ChatDoc(c.user, space.space_id, t)

\* the step in which invocation i listed a mailbox and left out messages whose
\* detail fetch threw: the attempt goes on to storage (to the sync record when
\* nothing is left to store) with the other messages
MailItemSkipStep(i) ==
  LET m == inv[i].m
      listed == MailListed(provMail[m.user], m.q, now, m.max)
      batch == inv'[i].m.toStore
  IN  /\ inv'[i].pc = (IF listed = inv'[i].m.skipped THEN "mailLog" ELSE "mailStore")
      /\ {batch[k].message_id : k \in DOMAIN batch}
           = {msg.id : msg \in listed \ inv'[i].m.skipped}

\* C27: an item whose transformation (chat) or detail fetch (mail) throws is
\* left out and nothing else: the other items of the space or mailbox are
\* queued, the attempt goes on to storage, and an attempt in which nothing else
\* failed stored them and wrote its success entry
C27_ItemFailureIsSkipped ==
  /\ [][\A i \in Slots :
          /\ (inv[i].pc = "chatSpace" /\ inv'[i].c.dropped # inv[i].c.dropped)
               => ChatItemSkipStep(i)
          /\ (inv[i].pc = "mailList" /\ inv'[i].m.skipped # {})
               => MailItemSkipStep(i)]_vars
  /\ [](\A i \in Slots :
          /\ (inv[i].pc = "mailPlan" /\ inv[i].c.phase = "ok" /\ inv[i].c.dropped # {}) =>
               /\ \A k \in DOMAIN inv[i].c.all :
                    <<inv[i].c.all[k].space_id, inv[i].c.all[k].message_time>>
                       \in StoredFor(inv[i].c.user)
               /\ \E k \in Entries(inv[i].cycle, inv[i].c.user, "chat") :
                    syncLog[k].status = "success"
          /\ (/\ inv[i].pc \in {"refresh", "analyze"}
              /\ inv[i].m.phase = "ok"
              /\ inv[i].m.skipped # {}) =>
               /\ \A k \in DOMAIN inv[i].m.toStore : inv[i].m.toStore[k] \in gmailDocs
               /\ \E k \in Entries(inv[i].cycle, inv[i].m.user, "gmail") :
                    syncLog[k].status = "success")

C27_Witness ==
  \E i \in Slots :
    /\ inv[i].pc \in {"refresh", "analyze"}
    /\ inv[i].m.phase = "ok"
    /\ Cardinality(inv[i].m.skipped) = 1
    /\ Len(inv[i].m.toStore) = 1
    /\ inv[i].m.toStore[1] \in gmailDocs
    /\ \E k \in Entries(inv[i].cycle, inv[i].m.user, "gmail") :
         syncLog[k].status = "success" /\ syncLog[k].item_count = 1

\* the entry a step appended to the sync log
NewEntry == syncLog'[Len(syncLog) + 1]

C29_RefreshRetried ==
  rf.called =>
    /\ Len(rf.res.sleeps) = rf.res.calls - 1
    /\ (/\ rf.outs[1] \in TransientCodes
        /\ rf.outs[2] \in TransientCodes
        /\ rf.outs[3] \in SuccessCodes) => rf.res.result = "returned"
    /\ (\A k \in 1..DefaultMaxRetries : rf.outs[k] \in TransientCodes) =>
         rf.res.calls = DefaultMaxRetries /\ rf.res.result = "thrown"

\* C30: a refresh whose response carries no refresh token leaves the user's
\* refresh token as it was, in the user record and in the credential the cycle
\* goes on with; no user a cycle is working on is ever without a refresh token
C30_RefreshTokenKept ==
  /\ [][\A i \in Slots :
          (/\ inv[i].pc = "refresh"
           /\ inv'[i] # inv[i]
           /\ inv'[i].refresh = "noRT") =>
             LET u == CurUser(inv[i]) IN
             /\ userRec'[u].refresh_token = userRec[u].refresh_token
             /\ inv'[i].tok[u].refresh_token = inv[i].tok[u].refresh_token]_vars
  /\ [](\A i \in Slots :
          inv[i].pc \notin {"idle", "enumerate"} =>
            \A k \in 1..Len(inv[i].users) :
              /\ userRec[inv[i].users[k]].refresh_token # ""
              /\ inv[i].tok[inv[i].users[k]].refresh_token # "")

C30_Witness ==
  \E i \in Slots :
    /\ inv[i].pc = "chatSpace"
    /\ inv[i].refresh = "noRT"
    /\ inv[i].tok[CurUser(inv[i])] = Tokens("at2", "rt1")
    /\ userRec[CurUser(inv[i])].access_token = "at2"
    /\ userRec[CurUser(inv[i])].refresh_token = "rt1"

\* C31: while a collector works for a user, the user record holds the
\* credential the collector works with: a changed credential was persisted
\* before the first collector call; and a refresh step that leaves the
\* in-memory credential as it was writes nothing to the user records
C31_PersistedBeforeCollect ==
  /\ [](\A i \in Slots :
          inv[i].pc \in (ChatPcs \cup MailPcs) =>
            LET u == CurUser(inv[i]) IN
            /\ userRec[u].access_token = inv[i].tok[u].access_token
            /\ userRec[u].refresh_token = inv[i].tok[u].refresh_token)
  /\ [][\A i \in Slots :
          (inv[i].pc = "refresh" /\ inv'[i] # inv[i] /\ inv'[i].tok = inv[i].tok)
             => userRec' = userRec]_vars

C31_Witness ==
  \E i \in Slots :
    /\ inv[i].pc = "chatSpace"
    /\ inv[i].c.sidx = 1
    /\ inv[i].uidx = 2
    /\ inv[i].tok["B"] = Tokens("at2", "rt2")
    /\ userRec["B"].access_token = "at2"
    /\ userRec["B"].refresh_token = "rt2"
    /\ userRec["A"].access_token = "at1"

C33_OnlyThatSpace ==
  [][LET before == loadSpacesFromJSON(spacesFile)
         after == loadSpacesFromJSON(spacesFile')
     IN  cur'.called =>
           /\ FindIndex(before, cur'.space) = 0 => spacesFile' = spacesFile
           /\ Len(after) = Len(before)
           /\ \A k \in 1..Len(before) :
                /\ after[k].space_id = before[k].space_id
                /\ before[k].space_id # cur'.space => after[k] = before[k]]_vars

C33_Witness ==
  /\ cur.called
  /\ cur.known
  /\ cur.writeOk
  /\ cur.space = "S2"
  /\ cur.t = T0 + 5
  /\ Watermark(spacesFile, "S2") = T0 + 5
  /\ spacesFile.data[1] = SpaceEntry("S1", T0, FALSE)

\* C34: no step of any cycle lowers the stored watermark of a space, whatever
\* fails in the cycle and whether or not the attempt found anything new
C34_WatermarkMonotone ==
  [][\A s \in Spaces : Watermark(spacesFile', s) >= Watermark(spacesFile, s)]_vars

C34_Witness ==
  \E i \in Slots :
    /\ inv[i].pc = "chatStore"
    /\ ~inv[i].c.hasAnyNew
    /\ inv[i].c.spaceErrors = 0
    /\ inv[i].c.writeErrors = 0
    /\ Len(inv[i].c.spaces) >= 1
    /\ inv[i].c.spaces[1].latest_message_time = T0 + 5
    /\ Watermark(spacesFile, "S1") = T0 + 5
    /\ Watermark(spacesFile, "S2") = NoTime

\* C35: the step in which a space fails leaves the cursor file and the batch
\* as they were, and for every space that failed in an attempt the stored
\* watermark and flag are still the ones the attempt read, the batch holds no
\* item of that space, and a listing from the stored watermark returns what
\* this attempt's listing returned
C35_FailedSpaceUntouched ==
  /\ [][\A i \in Slots :
          ~(inv'[i].c.failed \subseteq inv[i].c.failed) =>
            /\ spacesFile' = spacesFile
            /\ inv'[i].c.all = inv[i].c.all]_vars
  /\ [](\A i \in Slots :
          inv[i].pc \in ChatPcs =>
            \A k \in inv[i].c.failed :
              LET space == inv[i].c.spaces[k]
                  d == loadSpacesFromJSON(spacesFile)
              IN  /\ d[k].latest_message_time = space.latest_message_time
                  /\ d[k].has_new_msg = space.has_new_msg
                  /\ \A j \in 1..Len(inv[i].c.all) :
                       inv[i].c.all[j].space_id # space.space_id
                  /\ ChatListed(provChat[space.space_id],
                                Watermark(spacesFile, space.space_id))
                       = ChatListed(provChat[space.space_id], space.latest_message_time))

C35_Witness ==
  \E i \in Slots :
    /\ inv[i].pc = "chatStore"
    /\ \E k \in inv[i].c.failed :
         /\ ChatListed(provChat[inv[i].c.spaces[k].space_id],
                       inv[i].c.spaces[k].latest_message_time) # {}
         /\ Len(inv[i].c.all) > 0

\* C36: between cycles, an item that appeared at the provider while the user's
\* collection was in progress is either stored, or still selected by the
\* query the next attempt will send (chat: above the stored watermark; mail:
\* matching the strategy chosen from the stored last-sync marker)
C36_ArrivalNotLost ==
  (\A i \in Slots : inv[i].pc = "idle") =>
    /\ \A s \in Spaces : \A t \in ChatArrivals(provChat[s]) :
         \/ BagIn(ChatDoc("A", s, t), chatDocs)
         \/ t \in ChatListed(provChat[s], Watermark(spacesFile, s))
    /\ \A msg \in MailArrivals(provMail["A"]) :
         \/ \E doc \in gmailDocs : doc.user_id = "A" /\ doc.message_id = msg.id
         \/ MatchesQuery(msg,
                         MailStrategy(hasExistingGmailMessages(gmailDocs, "A"),
                                      getLastGmailSyncTime(userRec, "A")).searchQuery,
                         now)

\* C37: whenever a DataFetcher is not running, its totalRuns equals
\* successfulRuns + failedRuns
C37_CountersAddUp ==
  \A f \in Fetchers :
    ~isRunning[f] =>
      stats[f].totalRuns = stats[f].successfulRuns + stats[f].failedRuns

\* C38: failedRuns and lastError change only in the step in which the
\* enumeration of the active users throws; the step that ends the user loop
\* counts the cycle in successfulRuns whatever failed for its users, and the
\* analysis, returning or throwing, leaves the counters alone
C38_OnlyEnumerationFails ==
  /\ [][\A f \in Fetchers :
          (stats'[f].failedRuns # stats[f].failedRuns
             \/ stats'[f].lastError # stats[f].lastError) =>
            \E i \in Slots : /\ inv[i].pc = "enumerate"
                             /\ inv[i].this = f
                             /\ inv'[i].pc = "idle"]_vars
  /\ [][\A i \in Slots :
          /\ (inv[i].pc \notin {"idle", "enumerate", "analyze"} /\ inv'[i].pc = "analyze") =>
               stats' = [stats EXCEPT ![inv[i].this].successfulRuns = @ + 1]
          /\ (inv[i].pc = "analyze" /\ inv'[i].pc = "idle") => stats' = stats]_vars

C38_Witness ==
  \E i \in Slots :
    /\ inv[i].pc = "analyze"
    /\ \/ inv[i].refreshFailed # {}
       \/ inv[i].c.phase = "failed"
       \/ inv[i].m.phase = "failed"
    /\ stats[inv[i].this].successfulRuns = 1
    /\ stats[inv[i].this].failedRuns = 0
    /\ ~stats[inv[i].this].lastError

\* C39: the mail list loop never has listed more ids than the budget of its
\* strategy, every list call it is about to make asks for at least one id,
\* and a loop that is listing eventually stops listing
C39_MailListBounded ==
  /\ [](pg.kind = "gmail" =>
          /\ pg.max \in {InitialMaxResults, IncrementalMaxResults, FallbackMaxResults}
          /\ pg.listed <= pg.max
          /\ pg.pc = "list" => RequestedPage(pg.max, pg.listed) >= 1)
  /\ ((pg.kind = "gmail" /\ pg.pc = "list") ~> (pg.pc # "list"))

C39_Witness ==
  /\ pg.kind = "gmail"
  /\ pg.pc = "done"
  /\ pg.max = IncrementalMaxResults
  /\ pg.listed = pg.max
  /\ pg.pages = MaxPages

\* C40: no last-sync marker of a user is later than the current real instant
C40_MarkerNotInFuture ==
  \A u \in Users :
    /\ userRec[u].last_gmail_sync <= now
    /\ userRec[u].last_chat_sync <= now
====
